---------------------------- MODULE Spec2Model ----------------------------
(***************************************************************************)
(* Model of the OAuth credential-provisioning server actions:              *)
(*   src/app/actions/anthropic-oauth.ts  (authorization-code + PKCE flow)  *)
(*   src/unnamed/part_000                (Gemini polling-login flow)       *)
(*                                                                         *)
(* Every exported async function is a handler that several concurrent     *)
(* requests may run in one Node.js process (oauthConfig and authPromises  *)
(* are module-level state of that process).  A handler runs to its next   *)
(* await on an external party (config loader, token endpoint, key         *)
(* endpoint) without interruption: the continuation of an await on an     *)
(* already settled promise is a microtask, and no request or response is  *)
(* dispatched between microtasks.  Every await on an external party is a  *)
(* point where other handlers interleave.  Reading the body of a response *)
(* that has arrived (text(), json()) has no effect on shared state and is *)
(* folded into the step of the response.  The session store (keyValue)   *)
(* and the credential store (connection) are called synchronously: their  *)
(* results are used without await, so a store call that fails throws at   *)
(* the call.                                                              *)
(*                                                                         *)
(* Strings are modelled as sequences: an authCode is a sequence of        *)
(* characters, JSON text is <<"json", value>>, other text is a sequence   *)
(* that JSON.parse rejects, Null is a value outside every string.         *)
(***************************************************************************)
EXTENDS Naturals, Sequences, FiniteSets, TLC

(* ------------------------------ bounds -------------------------------- *)
MaxTicks == 2
MaxCalls == 2

(* ------------------------- program constants -------------------------- *)
SessionTTL == 600000
CleanupDelay == 300000

(* one step of the modelled clock is the session's time to live *)
ClockStep == SessionTTL

Procs == {1, 2}

Null == <<"<null>">>
Undefined == <<"<undefined>">>
EmptyText == <<>>
GarbageText == <<"{", "x">>

SessionKey == "anthropic-oauth-data"
Anthropic == "Anthropic"
GeminiCLI == "Gemini CLI"
Providers == {Anthropic, GeminiCLI}

(* what configs.anthropic can be when the loader resolves *)
Configs == {"cfgA"}
LoaderResults == Configs \cup {"undefined"}

(* the authorization codes a caller passes to complete *)
AuthCodes ==
  { <<>>, <<"A">>, <<"A", "#", "S">>, <<"A", "#">>, <<"A", "#", "S", "#", "T">> }

(* 2xx bodies of the credential-issuance endpoint (ApiKeyResponse) *)
ApiKeyResponses ==
  { [raw_key |-> "sk-abc", id |-> "1", name |-> "n", created_at |-> "2024-01-01",
     partial_key_hint |-> "sk-...c", status |-> "active"],
    [raw_key |-> "sk-xyz", id |-> "2", name |-> "m", created_at |-> "2024-02-02",
     partial_key_hint |-> "sk-...z", status |-> "active"] }

(* 2xx bodies of the token endpoint (TokenResponse) *)
TokenResponses == { [access_token |-> "tok", expires_in |-> 3600] }

(* ------------------------- pure functions ----------------------------- *)

(* JSON.stringify / JSON.parse *)
JSONstringify(obj) == <<"json", obj>>
JSONparses(text) == Len(text) = 2 /\ text[1] = "json"
JSONparse(text) == text[2]

(* JS truthiness of a string-or-null value *)
Falsy(v) == v = Null \/ v = Undefined \/ v = EmptyText

(* String.prototype.includes for a single character *)
Includes(s, ch) == \E i \in 1..Len(s) : s[i] = ch

(* index of the first ch in s, Len(s)+1 when there is none *)
RECURSIVE IndexOf(_, _, _)
IndexOf(s, ch, i) ==
  IF i > Len(s) THEN Len(s) + 1
  ELSE IF s[i] = ch THEN i ELSE IndexOf(s, ch, i + 1)

(* String.prototype.split(sep): every piece between separators *)
RECURSIVE Split(_, _)
Split(s, ch) ==
  LET i == IndexOf(s, ch, 1) IN
    IF i > Len(s) THEN <<s>>
    ELSE <<SubSeq(s, 1, i - 1)>> \o Split(SubSeq(s, i + 1, Len(s)), ch)

(* const [code, receivedState] =                                           *)
(*   authCode.includes('#') ? authCode.split('#') : [authCode, null]       *)
ParseAuthCode(authCode) ==
  IF Includes(authCode, "#")
    THEN LET parts == Split(authCode, "#") IN
           [code |-> parts[1], receivedState |-> parts[2]]
    ELSE [code |-> authCode, receivedState |-> Null]

(* crypto.randomBytes(32).toString('base64url'): the k-th draw *)
RandomToken(k) == <<"random", k>>

(* crypto.createHash('sha256').update(v).digest('base64url') *)
Sha256Base64Url(v) == <<"sha256", v>>

(* a PKCE pair whose challenge is the verifier itself (method "plain") *)
generatePKCEPlain(k) ==
  [verifier |-> <<"random", k>>, challenge |-> <<"random", k>>]

generatePKCE(k) ==
  [verifier |-> RandomToken(k), challenge |-> Sha256Base64Url(RandomToken(k))]

generateState(k) == RandomToken(k)

(* the fields of the provider configuration *)
ConfigField(config, field) == <<config, field>>

(* an authorization URL whose state parameter is the PKCE verifier *)
BuildAuthUrlVerifierAsState(config, pkce, state) ==
  [base |-> <<config, "authorizeUrl">>,
   params |->
     [code |-> <<"true">>,
      client_id |-> <<config, "clientId">>,
      response_type |-> <<"code">>,
      redirect_uri |-> <<config, "redirectUri">>,
      scope |-> <<config, "scopes joined by space">>,
      state |-> pkce.verifier,
      code_challenge |-> pkce.challenge,
      code_challenge_method |-> <<"S256">>]]

(* new URL(config.authorizeUrl) with the searchParams set by start *)
BuildAuthUrl(config, pkce, state) ==
  [base |-> ConfigField(config, "authorizeUrl"),
   params |->
     [code |-> <<"true">>,
      client_id |-> ConfigField(config, "clientId"),
      response_type |-> <<"code">>,
      redirect_uri |-> ConfigField(config, "redirectUri"),
      scope |-> ConfigField(config, "scopes joined by space"),
      state |-> state,
      code_challenge |-> pkce.challenge,
      code_challenge_method |-> <<"S256">>]]

(* a session that never expires *)
SessionExpiredNever(timestamp, t) == FALSE

(* the session is expired when older than ten minutes *)
SessionExpired(timestamp, t) == t - timestamp > SessionTTL

(* the body of the token request *)
TokenPayload(config, code, receivedState, oauthData) ==
  [grant_type |-> "authorization_code",
   code |-> code,
   redirect_uri |-> ConfigField(config, "redirectUri"),
   client_id |-> ConfigField(config, "clientId"),
   code_verifier |-> oauthData.verifier,
   state |-> IF Falsy(receivedState) THEN oauthData.state ELSE receivedState]

(* metadata with the key's id and name exchanged *)
OAuthMetadataSwapped(apiKeyData) ==
  [type |-> "oauth_generated",
   key_id |-> apiKeyData.name,
   key_name |-> apiKeyData.id,
   created_at |-> apiKeyData.created_at,
   partial_key_hint |-> apiKeyData.partial_key_hint]

(* the metadata complete stores with an issued key *)
OAuthMetadata(apiKeyData) ==
  [type |-> "oauth_generated",
   key_id |-> apiKeyData.id,
   key_name |-> apiKeyData.name,
   created_at |-> apiKeyData.created_at,
   partial_key_hint |-> apiKeyData.partial_key_hint]

(* a credential row *)
Row(apikey, meta) == [apikey |-> apikey, google_Oauth |-> meta]
NoRow == [apikey |-> "<no row>", google_Oauth |-> Null]

(* a saved row that has the metadata but not the secret *)
SavedRowWithoutKey(apiKeyData) ==
  [apikey |-> "", google_Oauth |-> <<"json", OAuthMetadata(apiKeyData)>>]

(* the row complete saves for an issued key (lines 174-185) *)
SavedRow(apiKeyData) ==
  Row(apiKeyData.raw_key, JSONstringify(OAuthMetadata(apiKeyData)))

(* a logout that empties the secret and keeps the metadata *)
ClearedRowKeepsMetadata(row) == [apikey |-> "", google_Oauth |-> row.google_Oauth]

(* a logout that removes the row *)
ClearedRowDeleted(row) == NoRow

(* the row logout writes over a flow-provisioned `row` (lines 244-248) *)
ClearedRow(row) == Row("", EmptyText)

(* the missing session reported as an expired one *)
SessionNotFoundAsExpired ==
  [kind |-> "value", success |-> FALSE,
   error |-> "OAuth session expired. Please try again."]

(* the failure complete returns when keyValue.get finds nothing *)
SessionNotFound ==
  [kind |-> "value", success |-> FALSE,
   error |-> "OAuth session not found. Please start the authentication process again."]

(* metadata written by something other than this flow *)
OtherMetadata == [type |-> "gemini_oauth"]

(* rows the credential store can hold for Anthropic when the process      *)
(* starts: none, a key the user entered (metadata absent, not JSON, or of *)
(* another type), or a key an earlier run of the flow provisioned         *)
InitialAnthropicRows ==
  { NoRow,
    Row("sk-manual", Null),
    Row("sk-manual", GarbageText),
    Row("sk-manual", JSONstringify(OtherMetadata)),
    Row("sk-old", JSONstringify(OAuthMetadata(
          [raw_key |-> "sk-old", id |-> "0", name |-> "old", created_at |-> "2023-12-31",
           partial_key_hint |-> "sk-...d", status |-> "active"]))) }

(* any metadata at all taken for the flow's *)
IsOAuthGeneratedAnyMetadata(meta) == ~Falsy(meta)

(* metadata?.type === 'oauth_generated' after a guarded JSON.parse *)
IsOAuthGenerated(meta) ==
  /\ ~Falsy(meta)
  /\ JSONparses(meta)
  /\ JSONparse(meta).type = "oauth_generated"


(* ------------------- the stores (external collaborators) -------------- *)

(* keyValue.upsert / get / delete on the single session key *)
KvUpsert(store, value) == value
KvGet(store) == store
KvDelete(store) == Null

(* connection.upsert / getByProvider / delete *)
ConnUpsert(store, provider, row) == [store EXCEPT ![provider] = row]
ConnGetByProvider(store, provider) == store[provider]
ConnDelete(store, provider) == [store EXCEPT ![provider] = NoRow]

(* ------------------------------ state --------------------------------- *)
VARIABLES
  oauthConfig,   \* the module-level cache: "null", "undefined" or a config
  loaderCalls,   \* how often getOAuthConfig() was invoked
  kv,            \* session store: value under SessionKey, or Null
  conn,          \* credential store: provider -> row or NoRow
  now,           \* Date.now()
  starts,        \* number of PKCE/state generations so far
  calls,         \* per handler in flight: position and locals
  ncalls,        \* number of handler invocations so far
  last,          \* history: what the step just taken returned or sent
  authedSince,   \* history: a complete succeeded and no logout ran since
  gemCached,     \* GeminiOAuthService: cached credentials exist
  gemUrls,       \* number of authWithWeb() calls so far
  gemResolved,   \* auth urls whose loginCompletePromise has resolved
  authPromises,  \* keys of the authPromises map
  timers         \* pending setTimeout callbacks: [url, due]

vars == <<oauthConfig, loaderCalls, kv, conn, now, starts, calls, ncalls, last,
          authedSince, gemCached, gemUrls, gemResolved, authPromises, timers>>

gemVars == <<gemCached, gemUrls, gemResolved, authPromises, timers>>

NoData == [verifier |-> Null, state |-> Null, timestamp |-> 0]
NoRet == [kind |-> "none"]
Exception == [kind |-> "exception"]
NoEvent == [kind |-> "none"]

(* what the session store can hold when the process starts: nothing, or  *)
(* the attempt a start wrote before the process was restarted             *)
EarlierAttempt ==
  [verifier |-> RandomToken("earlier verifier"), state |-> RandomToken("earlier state"),
   timestamp |-> 0]
InitialSessions == {Null, JSONstringify(EarlierAttempt)}

IdleCall ==
  [pc |-> "idle", op |-> "none", authCode |-> Null, config |-> "null",
   tokenReq |-> {}, keyReq |-> {}]

Init ==
  /\ oauthConfig = "null"
  /\ loaderCalls = 0
  /\ kv \in InitialSessions
  /\ conn \in { [p \in Providers |->
                   IF p = Anthropic THEN a ELSE Row("", JSONstringify(OtherMetadata))] :
                  a \in InitialAnthropicRows }
  /\ now = 0
  /\ starts = 0
  /\ calls = [p \in Procs |-> IdleCall]
  /\ ncalls = 0
  /\ last = NoEvent
  /\ authedSince = FALSE
  /\ gemCached = FALSE
  /\ gemUrls = 0
  /\ gemResolved = {}
  /\ authPromises = {}
  /\ timers = {}

(* the record of a handler returning `ret`; the stores before the step    *)
(* are the unprimed variables                                              *)
Event(p, c, ret) ==
  [kind |-> "return", op |-> c.op, authCode |-> c.authCode,
   config |-> c.config, ret |-> ret, fault |-> FALSE,
   session |-> "unread", oauthData |-> NoData,
   tokenReq |-> c.tokenReq, tokenRes |-> "none",
   keyReq |-> c.keyReq, keyRes |-> "none", keyData |-> {},
   connPre |-> conn, connPost |-> conn, kvPre |-> kv, kvPost |-> kv,
   authedPre |-> authedSince, time |-> now, draws |-> 0, gem |-> "none"]

(* handler slots have no identity: a slot that falls idle below a busy   *)
(* one takes its place                                                    *)
Compact(cs) ==
  IF cs[1].pc = "idle" /\ cs[2].pc # "idle" THEN [p \in Procs |-> cs[3 - p]] ELSE cs

(* a new request is served by the first free handler slot *)
FreeSlot(p) ==
  /\ calls[p].pc = "idle"
  /\ \A q \in Procs : calls[q].pc = "idle" => ~(q < p)
  /\ ncalls < MaxCalls

(* what is observed of a step: the result, what it rests on (was a code  *)
(* given, how old was the stored session, what did the endpoints answer,  *)
(* did a store, the loader or the entropy source throw), the credential   *)
(* store before it and whether it wrote the session store; a request that *)
(* is sent is observed with the code and the session it was built from.   *)
(* The stores after the step are the state itself.                        *)
Observed(e) ==
  LET request == e.kind = "sent" /\ e.tokenRes = "none" IN
  [kind |-> e.kind, op |-> e.op, ret |-> e.ret, fault |-> e.fault,
   codeGiven |-> (e.authCode # Null /\ e.authCode # EmptyText),
   sessionAge |-> IF JSONparses(e.kvPre)
                    THEN {e.time - JSONparse(e.kvPre).timestamp} ELSE {},
   session |-> e.session, tokenRes |-> e.tokenRes, keyRes |-> e.keyRes,
   keyData |-> e.keyData,
   authCode |-> IF request THEN e.authCode ELSE Null,
   oauthData |-> IF request \/ e.op = "start" THEN e.oauthData ELSE NoData,
   tokenReq |-> IF request THEN e.tokenReq ELSE {},
   connPre |-> e.connPre,
   kvChanged |-> (e.kvPost # e.kvPre)]

Failure(msg) == [kind |-> "value", success |-> FALSE, error |-> msg]

Truthy(config) == config \in Configs

(* ------------------------- ensureOAuthConfig -------------------------- *)

(* getOAuthConfig() is invoked (line 12) and the handler waits for it *)
AwaitLoader(p, c) ==
  /\ loaderCalls' = loaderCalls + 1
  /\ calls' = Compact([calls EXCEPT ![p] = [c EXCEPT !.pc = "cfg_wait"]])
  /\ last' = NoEvent
  /\ UNCHANGED <<kv, starts>>

(* catch block of complete (lines 195-203) entered with event `e`:        *)
(* keyValue.delete, then the failure result; a delete that throws leaves  *)
(* the catch block as an exception                                        *)
(* a catch block that reports the failure and leaves the session stored *)
CompleteCatchNoCleanup(e, msg, deleteThrows) ==
  IF deleteThrows
    THEN [e EXCEPT !.ret = Exception, !.fault = TRUE]
    ELSE [e EXCEPT !.ret = Failure(msg)]

CompleteCatch(e, msg, deleteThrows) ==
  IF deleteThrows
    THEN [e EXCEPT !.ret = Exception, !.fault = TRUE]
    ELSE [e EXCEPT !.ret = Failure(msg), !.kvPost = KvDelete(e.kvPost)]

(* --------------------------- startAnthropicOAuth ---------------------- *)

(* a start that stores its attempt only when none is stored *)
StartOutcomeKeepsFirst(e, k, entropyFails, upsertFails) ==
  LET pkce == generatePKCE(ToString(2 * k + 1))
      state == generateState(ToString(2 * k + 2))
      oauthData == [verifier |-> pkce.verifier, state |-> state, timestamp |-> e.time]
      failed == Failure("Failed to start OAuth flow")
  IN
    IF entropyFails
      THEN [e EXCEPT !.ret = failed, !.fault = TRUE]
    ELSE IF ~Truthy(e.config)
      THEN [e EXCEPT !.ret = failed, !.draws = 1]
    ELSE IF upsertFails
      THEN [e EXCEPT !.ret = failed, !.fault = TRUE, !.draws = 1]
    ELSE
      [e EXCEPT !.oauthData = oauthData, !.draws = 1,
                !.kvPost = IF e.kvPre = Null THEN JSONstringify(oauthData) ELSE e.kvPre,
                !.ret = [kind |-> "value", success |-> TRUE,
                         authUrl |-> BuildAuthUrl(e.config, pkce, state),
                         verifier |-> pkce.verifier, state |-> state]]

(* lines 51-80 once the config is there; anything thrown is caught *)
StartOutcome(e, k, entropyFails, upsertFails) ==
  LET pkce == generatePKCE(ToString(2 * k + 1))
      state == generateState(ToString(2 * k + 2))
      oauthData == [verifier |-> pkce.verifier, state |-> state, timestamp |-> e.time]
      failed == Failure("Failed to start OAuth flow")
  IN
    IF entropyFails
      THEN [e EXCEPT !.ret = failed, !.fault = TRUE]
    ELSE IF ~Truthy(e.config)
      THEN [e EXCEPT !.ret = failed, !.draws = 1]
    ELSE IF upsertFails
      THEN [e EXCEPT !.ret = failed, !.fault = TRUE, !.draws = 1]
    ELSE
      [e EXCEPT !.oauthData = oauthData, !.draws = 1,
                !.kvPost = KvUpsert(e.kvPre, JSONstringify(oauthData)),
                !.ret = [kind |-> "value", success |-> TRUE,
                         authUrl |-> BuildAuthUrl(e.config, pkce, state),
                         verifier |-> pkce.verifier, state |-> state]]

(* start runs from the resolved config to its return *)
StartStep(p, c) ==
  /\ \E e \in { StartOutcome(Event(p, c, NoRet), starts, entropyFails, upsertFails) :
                    entropyFails \in BOOLEAN, upsertFails \in BOOLEAN } :
       /\ last' = Observed(e)
       /\ kv' = e.kvPost
       /\ starts' = starts + e.draws
  /\ calls' = Compact([calls EXCEPT ![p] = IdleCall])

StartCall(p) ==
  /\ FreeSlot(p)
  /\ ncalls' = ncalls + 1
  /\ LET c == [IdleCall EXCEPT !.op = "start", !.config = oauthConfig] IN
       IF Truthy(oauthConfig)
         THEN StartStep(p, c) /\ UNCHANGED loaderCalls
         ELSE AwaitLoader(p, c)
  /\ UNCHANGED <<oauthConfig, conn, now, authedSince, gemVars>>

(* -------------------------- completeAnthropicOAuth -------------------- *)

(* what keyValue.get returned, as complete classifies it (lines 104-129) *)
SessionOf(storedData, t) ==
  IF Falsy(storedData) THEN "absent"
  ELSE IF ~JSONparses(storedData) THEN "invalid"
  ELSE IF SessionExpired(JSONparse(storedData).timestamp, t) THEN "expired"
  ELSE "live"

(* lines 100-147 once the config is there: the event of a return, or of   *)
(* the token request being sent                                           *)
CompleteOutcome(e, getThrows, deleteThrows, catchDeleteThrows) ==
  LET parsed == ParseAuthCode(e.authCode)
      storedData == KvGet(e.kvPre)
      session == SessionOf(storedData, e.time)
      es == [e EXCEPT !.session = session]
  IN
    IF getThrows
      THEN CompleteCatch([e EXCEPT !.fault = TRUE], "session store failed", catchDeleteThrows)
    ELSE IF session = "absent"
      THEN [es EXCEPT !.ret = SessionNotFound]
    ELSE IF session = "invalid"
      THEN [es EXCEPT !.ret = Failure("Invalid OAuth session data")]
    ELSE IF session = "expired"
      THEN IF deleteThrows
             THEN CompleteCatch([es EXCEPT !.fault = TRUE], "session store failed", catchDeleteThrows)
             ELSE [es EXCEPT !.kvPost = KvDelete(e.kvPre),
                             !.ret = Failure("OAuth session expired. Please try again.")]
    ELSE IF ~Truthy(e.config)
      THEN CompleteCatch(es, "Cannot read properties of undefined", catchDeleteThrows)
    ELSE
      [es EXCEPT !.kind = "sent",
                 !.oauthData = JSONparse(storedData),
                 !.tokenReq = {TokenPayload(e.config, parsed.code, parsed.receivedState,
                                            JSONparse(storedData))}]

(* complete runs from the resolved config to its return or to the fetch *)
CompleteStep(p, c) ==
  /\ \E e \in { CompleteOutcome(Event(p, c, NoRet), getThrows, deleteThrows,
                                    catchDeleteThrows) :
                    getThrows \in BOOLEAN, deleteThrows \in BOOLEAN,
                    catchDeleteThrows \in BOOLEAN } :
       /\ last' = Observed(e)
       /\ kv' = e.kvPost
       /\ calls' = Compact([calls EXCEPT ![p] =
            IF e.kind = "sent"
              THEN [c EXCEPT !.pc = "token_wait", !.authCode = Null, !.tokenReq = e.tokenReq]
              ELSE IdleCall])
  /\ UNCHANGED starts

(* lines 90-99: the empty code returns at once, outside the try block *)
CompleteCall(p) ==
  /\ FreeSlot(p)
  /\ ncalls' = ncalls + 1
  /\ \E authCode \in AuthCodes :
       LET c == [IdleCall EXCEPT !.op = "complete", !.authCode = authCode,
                                 !.config = oauthConfig] IN
         IF authCode = EmptyText
           THEN /\ last' = Observed(Event(p, c, Failure("Missing authorization code")))
                /\ UNCHANGED <<calls, loaderCalls, kv, starts>>
         ELSE IF Truthy(oauthConfig)
           THEN CompleteStep(p, c) /\ UNCHANGED loaderCalls
         ELSE AwaitLoader(p, c)
  /\ UNCHANGED <<oauthConfig, conn, now, authedSince, gemVars>>

(* getOAuthConfig() resolves: oauthConfig = configs.anthropic (line 13),  *)
(* and the waiting handler goes on with that config                       *)
LoaderResolve(p) ==
  /\ calls[p].pc = "cfg_wait"
  /\ \E r \in LoaderResults :
       /\ oauthConfig' = r
       /\ LET c == [calls[p] EXCEPT !.config = r] IN
            IF c.op = "start" THEN StartStep(p, c) ELSE CompleteStep(p, c)
  /\ UNCHANGED <<loaderCalls, conn, now, ncalls, authedSince, gemVars>>

(* getOAuthConfig() rejects: the awaiting handler's catch block runs *)
LoaderReject(p) ==
  /\ calls[p].pc = "cfg_wait"
  /\ LET thrown == [Event(p, calls[p], NoRet) EXCEPT !.fault = TRUE] IN
       \E e \in IF calls[p].op = "start"
                  THEN { [thrown EXCEPT !.ret = Failure("Failed to start OAuth flow")] }
                  ELSE { CompleteCatch(thrown, "config loader failed", deleteThrows) :
                           deleteThrows \in BOOLEAN } :
         /\ last' = Observed(e)
         /\ kv' = e.kvPost
  /\ calls' = Compact([calls EXCEPT ![p] = IdleCall])
  /\ UNCHANGED <<oauthConfig, loaderCalls, conn, now, starts, ncalls, authedSince, gemVars>>

(* lines 141-164: the token endpoint answers (or the fetch rejects); on a *)
(* 2xx answer the key request goes out with the access token              *)
TokenOutcome(e, tokenRes, tokenData, catchDeleteThrows) ==
  IF tokenRes = "ok"
    THEN [e EXCEPT !.kind = "sent", !.tokenRes = "ok",
                   !.keyReq = {[authorization |-> <<"Bearer", tokenData.access_token>>,
                                url |-> ConfigField(e.config, "apiKeyUrl")]}]
    ELSE CompleteCatch([e EXCEPT !.tokenRes = tokenRes],
                       IF tokenRes = "http_error" THEN "Token exchange failed"
                                                  ELSE "fetch failed",
                       catchDeleteThrows)

TokenResponse(p) ==
  /\ calls[p].pc = "token_wait"
  /\ \E e \in { TokenOutcome([Event(p, calls[p], NoRet) EXCEPT !.session = "live"],
                                 tokenRes, tokenData, catchDeleteThrows) :
                    tokenRes \in {"ok", "http_error", "network_error"},
                    tokenData \in TokenResponses, catchDeleteThrows \in BOOLEAN } :
       /\ last' = Observed(e)
       /\ kv' = e.kvPost
       /\ calls' = Compact([calls EXCEPT ![p] =
            IF e.kind = "sent"
              THEN [calls[p] EXCEPT !.pc = "key_wait", !.keyReq = e.keyReq]
              ELSE IdleCall])
  /\ UNCHANGED <<oauthConfig, loaderCalls, conn, now, starts, ncalls, authedSince, gemVars>>

(* lines 166-194: the key endpoint answers; on a 2xx answer the key is    *)
(* saved, the session deleted and the key returned                        *)
KeyOutcome(e, keyRes, apiKeyData, upsertThrows, deleteThrows, catchDeleteThrows) ==
  LET ek == [e EXCEPT !.keyRes = keyRes] IN
    IF keyRes # "ok"
      THEN CompleteCatch(ek, IF keyRes = "http_error" THEN "API key creation failed"
                                                      ELSE "fetch failed",
                         catchDeleteThrows)
    ELSE IF upsertThrows
      THEN CompleteCatch([ek EXCEPT !.fault = TRUE],
                         "credential store failed", catchDeleteThrows)
    ELSE
      LET saved == [ek EXCEPT
                      !.keyData = {apiKeyData},
                      !.connPost = ConnUpsert(e.connPre, Anthropic, SavedRow(apiKeyData))]
      IN
        IF deleteThrows
          THEN CompleteCatch([saved EXCEPT !.fault = TRUE], "session store failed",
                             catchDeleteThrows)
          ELSE [saved EXCEPT !.kvPost = KvDelete(e.kvPre),
                             !.ret = [kind |-> "value", success |-> TRUE,
                                      apiKey |-> apiKeyData.raw_key,
                                      keyName |-> apiKeyData.name]]

Succeeded(e) == e.ret.kind = "value" /\ e.ret.success

KeyResponse(p) ==
  /\ calls[p].pc = "key_wait"
  /\ \E e \in { KeyOutcome([Event(p, calls[p], NoRet) EXCEPT !.session = "live",
                                                             !.tokenRes = "ok"],
                               keyRes, apiKeyData, upsertThrows, deleteThrows,
                               catchDeleteThrows) :
                    keyRes \in {"ok", "http_error", "network_error"},
                    apiKeyData \in ApiKeyResponses, upsertThrows \in BOOLEAN,
                    deleteThrows \in BOOLEAN, catchDeleteThrows \in BOOLEAN } :
       /\ last' = Observed(e)
       /\ kv' = e.kvPost
       /\ conn' = e.connPost
       /\ authedSince' = (authedSince \/ Succeeded(e))
  /\ calls' = Compact([calls EXCEPT ![p] = IdleCall])
  /\ UNCHANGED <<oauthConfig, loaderCalls, now, starts, ncalls, gemVars>>

(* ------------------------ checkAnthropicAuthStatus -------------------- *)

(* obj?.field: undefined when obj is null or has no such field *)
UndefinedField == "<undefined>"
Field(obj, name) == IF name \in DOMAIN obj THEN obj[name] ELSE UndefinedField

(* let metadata = null; if (google_Oauth) try { JSON.parse } catch {} *)
NullObject == [null |-> "null"]
GuardedMetadata(meta) ==
  IF ~Falsy(meta) /\ JSONparses(meta) THEN JSONparse(meta) ELSE NullObject

Unauthenticated == [kind |-> "value", authenticated |-> FALSE]

(* a status that shows the stored secret as the key hint *)
StatusOutcomeLeaksKey(e, getThrows) ==
  LET row == ConnGetByProvider(e.connPre, Anthropic) IN
    IF getThrows
      THEN [e EXCEPT !.ret = Unauthenticated, !.fault = TRUE]
    ELSE IF row = NoRow \/ row.apikey = ""
      THEN [e EXCEPT !.ret = Unauthenticated]
    ELSE
      LET metadata == GuardedMetadata(row.google_Oauth) IN
        [e EXCEPT !.ret =
           [kind |-> "value", authenticated |-> TRUE,
            isOAuthGenerated |-> (Field(metadata, "type") = "oauth_generated"),
            keyName |-> Field(metadata, "key_name"),
            keyHint |-> row.apikey]]

StatusOutcome(e, getThrows) ==
  LET row == ConnGetByProvider(e.connPre, Anthropic) IN
    IF getThrows
      THEN [e EXCEPT !.ret = Unauthenticated, !.fault = TRUE]
    ELSE IF row = NoRow \/ row.apikey = ""
      THEN [e EXCEPT !.ret = Unauthenticated]
    ELSE
      LET metadata == GuardedMetadata(row.google_Oauth) IN
        [e EXCEPT !.ret =
           [kind |-> "value", authenticated |-> TRUE,
            isOAuthGenerated |-> (Field(metadata, "type") = "oauth_generated"),
            keyName |-> Field(metadata, "key_name"),
            keyHint |-> Field(metadata, "partial_key_hint")]]

Status ==
  /\ ncalls < MaxCalls
  /\ ncalls' = ncalls + 1
  /\ \E e \in { StatusOutcome(Event(0, [IdleCall EXCEPT !.op = "status"], NoRet), getThrows) :
                    getThrows \in BOOLEAN } :
       last' = Observed(e)
  /\ UNCHANGED <<oauthConfig, loaderCalls, kv, conn, now, starts, calls,
                 authedSince, gemVars>>

(* -------------------------- logoutAnthropicOAuth ---------------------- *)

LogoutOutcome(e, getThrows, upsertThrows) ==
  LET row == ConnGetByProvider(e.connPre, Anthropic)
      ok == [kind |-> "value", success |-> TRUE]
  IN
    IF getThrows
      THEN [e EXCEPT !.ret = Failure("Failed to logout"), !.fault = TRUE]
    ELSE IF row # NoRow /\ IsOAuthGenerated(row.google_Oauth)
      THEN IF upsertThrows
             THEN [e EXCEPT !.ret = ok, !.fault = TRUE]
             ELSE [e EXCEPT !.ret = ok,
                            !.connPost = ConnUpsert(e.connPre, Anthropic, ClearedRow(row))]
    ELSE [e EXCEPT !.ret = ok]

Logout ==
  /\ ncalls < MaxCalls
  /\ ncalls' = ncalls + 1
  /\ \E e \in { LogoutOutcome(Event(0, [IdleCall EXCEPT !.op = "logout"], NoRet),
                                  getThrows, upsertThrows) :
                    getThrows \in BOOLEAN, upsertThrows \in BOOLEAN } :
       /\ last' = Observed(e)
       /\ conn' = e.connPost
  /\ authedSince' = FALSE
  /\ UNCHANGED <<oauthConfig, loaderCalls, kv, now, starts, calls, gemVars>>

(* ------------------------- Gemini polling login ----------------------- *)

(* checkGeminiAuthStatus *)
GemStatusOutcome(e, isAuthThrows) ==
  IF isAuthThrows
    THEN [e EXCEPT !.ret = Unauthenticated, !.fault = TRUE]
    ELSE [e EXCEPT !.ret = [kind |-> "value", authenticated |-> gemCached]]

GemStatus ==
  /\ ncalls < MaxCalls
  /\ ncalls' = ncalls + 1
  /\ \E e \in { GemStatusOutcome(Event(0, [IdleCall EXCEPT !.op = "gemStatus"], NoRet),
                                     isAuthThrows) : isAuthThrows \in BOOLEAN } :
       last' = Observed(e)
  /\ UNCHANGED <<oauthConfig, loaderCalls, kv, conn, now, starts, calls,
                 authedSince, gemVars>>

(* startGeminiOAuthLogin *)
GemStartOutcome(e, isAuthThrows, authWithWebThrows) ==
  IF isAuthThrows \/ (~gemCached /\ authWithWebThrows)
    THEN [e EXCEPT !.ret = Failure("gemini service failed"), !.fault = TRUE]
  ELSE IF gemCached
    THEN [e EXCEPT !.ret = [kind |-> "value", success |-> TRUE,
                            message |-> "Already authenticated"]]
  ELSE [e EXCEPT !.gem = "registered",
                 !.ret = [kind |-> "value", success |-> TRUE, authUrl |-> gemUrls + 1,
                          message |-> "Open the URL in your browser to authenticate"]]

GemStart ==
  /\ ncalls < MaxCalls
  /\ ncalls' = ncalls + 1
  /\ \E e \in { GemStartOutcome(Event(0, [IdleCall EXCEPT !.op = "gemStart"], NoRet),
                                    isAuthThrows, authWithWebThrows) :
                    isAuthThrows \in BOOLEAN, authWithWebThrows \in BOOLEAN } :
       /\ last' = Observed(e)
       /\ IF e.gem = "registered"
            THEN /\ gemUrls' = gemUrls + 1
                 /\ authPromises' = authPromises \cup {gemUrls + 1}
                 /\ timers' = timers \cup {[url |-> gemUrls + 1, due |-> now + CleanupDelay]}
            ELSE UNCHANGED <<gemUrls, authPromises, timers>>
  /\ UNCHANGED <<oauthConfig, loaderCalls, kv, conn, now, starts, calls, authedSince,
                 gemCached, gemResolved>>

(* the setTimeout callback of line 52 *)
GemCleanupTimer ==
  /\ \E t \in timers :
       /\ now >= t.due
       /\ authPromises' = authPromises \ {t.url}
       /\ timers' = timers \ {t}
  /\ last' = NoEvent
  /\ UNCHANGED <<oauthConfig, loaderCalls, kv, conn, now, starts, calls, ncalls,
                 authedSince, gemCached, gemUrls, gemResolved>>

(* the external login completes: the service caches the credentials and   *)
(* resolves loginCompletePromise                                          *)
GemLoginComplete ==
  /\ \E u \in (1..gemUrls) \ gemResolved :
       gemResolved' = gemResolved \cup {u}
  /\ gemCached' = TRUE
  /\ last' = NoEvent
  /\ UNCHANGED <<oauthConfig, loaderCalls, kv, conn, now, starts, calls, ncalls,
                 authedSince, gemUrls, authPromises, timers>>

(* clearGeminiOAuthCredentials *)
GemClearOutcome(e, clearThrows, deleteThrows) ==
  IF clearThrows
    THEN [e EXCEPT !.ret = Failure("gemini service failed"), !.fault = TRUE]
  ELSE IF deleteThrows
    THEN [e EXCEPT !.ret = Failure("credential store failed"), !.fault = TRUE,
                   !.gem = "cleared"]
  ELSE [e EXCEPT !.gem = "cleared",
                 !.connPost = ConnDelete(e.connPre, GeminiCLI),
                 !.ret = [kind |-> "value", success |-> TRUE,
                          message |-> "Credentials cleared successfully"]]

GemClear ==
  /\ ncalls < MaxCalls
  /\ ncalls' = ncalls + 1
  /\ \E e \in { GemClearOutcome(Event(0, [IdleCall EXCEPT !.op = "gemClear"], NoRet),
                                    clearThrows, deleteThrows) :
                    clearThrows \in BOOLEAN, deleteThrows \in BOOLEAN } :
       /\ last' = Observed(e)
       /\ conn' = e.connPost
       /\ gemCached' = (gemCached /\ e.gem # "cleared")
  /\ UNCHANGED <<oauthConfig, loaderCalls, kv, now, starts, calls, authedSince,
                 gemUrls, gemResolved, authPromises, timers>>

(* ------------------------------- clock -------------------------------- *)

(* time passes; the clock is read only to stamp and age a session and to *)
(* fire a timer, so a tick is taken when there is one of them to age      *)
Tick ==
  /\ now + ClockStep <= MaxTicks * ClockStep
  /\ JSONparses(kv) \/ timers # {}
  /\ now' = now + ClockStep
  /\ last' = NoEvent
  /\ UNCHANGED <<oauthConfig, loaderCalls, kv, conn, starts, calls, ncalls, authedSince,
                 gemVars>>

(* The handlers of the two files meet only in the credential store, and   *)
(* of the Gemini handlers only clearGeminiOAuthCredentials writes it.      *)
(* Spec is the Anthropic flow together with that handler; GeminiSpec is    *)
(* the polling-login flow; FullSpec interleaves all handlers.              *)
Next ==
  \/ \E p \in Procs : StartCall(p)
  \/ \E p \in Procs : CompleteCall(p)
  \/ \E p \in Procs : LoaderResolve(p)
  \/ \E p \in Procs : LoaderReject(p)
  \/ \E p \in Procs : TokenResponse(p)
  \/ \E p \in Procs : KeyResponse(p)
  \/ Status
  \/ Logout
  \/ GemClear
  \/ Tick

Spec == Init /\ [][Next]_vars

GeminiNext ==
  \/ GemStatus
  \/ GemStart
  \/ GemCleanupTimer
  \/ GemLoginComplete
  \/ GemClear
  \/ Tick

GeminiSpec == Init /\ [][GeminiNext]_vars

FullNext == Next \/ GeminiNext

FullSpec == Init /\ [][FullNext]_vars

(* What the event loop guarantees: a settled getOAuthConfig() promise has  *)
(* its continuation run.  The two fetch calls (lines 141 and 157) are made *)
(* without an AbortSignal or any timer, so nothing in the program obliges  *)
(* a response step to happen: TokenResponse and KeyResponse get no         *)
(* fairness.                                                              *)
LoaderSettles == \E p \in Procs : LoaderResolve(p) \/ LoaderReject(p)

LiveSpec == Spec /\ WF_vars(LoaderSettles)

(* For the polling login the event loop runs a setTimeout callback that is *)
(* due, and the clock goes on (up to the modelled horizon).  When the      *)
(* external login completes is up to the user: no fairness.                *)
GeminiLiveSpec == GeminiSpec /\ WF_vars(GemCleanupTimer) /\ WF_vars(Tick)

(* ====================== properties of the handlers ==================== *)

(* the step just taken was a step of handler `op` *)
Did(op) == last.kind # "none" /\ last.op = op

(* the step just taken returned from handler `op` *)
Returned(op) == Did(op) /\ last.kind = "return"

(* what checkAnthropicAuthStatus returns in the present state when the    *)
(* credential store answers                                                *)
StatusNow ==
  StatusOutcome(Event(0, [IdleCall EXCEPT !.op = "status"], NoRet), FALSE).ret

(* the step just taken is complete's read of the session store: the call  *)
(* was entered with a non-empty code and nothing it called threw          *)
ReadSession == Did("complete") /\ last.codeGiven /\ ~last.fault

(* ------------------------------- C1 ----------------------------------- *)
(* C1: a complete whose token exchange and key issuance both answered 2xx, *)
(* with no store, loader or entropy failure during the call, returns       *)
(* success=true; and from a successful complete until the next logout the  *)
(* status handler reports authenticated=true, both as evaluated on every   *)
(* state in between and as returned by every status call made there.       *)
C1_CompleteThenAuthenticated ==
  /\ (Returned("complete") /\ last.tokenRes = "ok" /\ last.keyRes = "ok" /\ ~last.fault)
       => (last.ret.kind = "value" /\ last.ret.success = TRUE)
  /\ authedSince => StatusNow.authenticated = TRUE
  /\ (authedSince /\ Returned("status") /\ ~last.fault)
       => last.ret.authenticated = TRUE

(* a start of this run was followed by a complete that succeeded, and the *)
(* status handler now answers authenticated                               *)
C1_Witness ==
  /\ starts >= 1
  /\ Returned("complete")
  /\ last.tokenRes = "ok" /\ last.keyRes = "ok" /\ ~last.fault
  /\ last.ret.success = TRUE
  /\ authedSince
  /\ StatusNow.authenticated = TRUE

(* ------------------------------- C2 ----------------------------------- *)
(* C2: a complete entered with a non-empty code while the session store    *)
(* holds no attempt (and no store or loader call throws) returns the       *)
(* "OAuth session not found" failure at that step, sends no request to the *)
(* token endpoint and leaves both stores as they were.                     *)
C2_NoSessionNoExchange ==
  (ReadSession /\ last.sessionAge = {})
    => /\ last.kind = "return"
       /\ last.ret.kind = "value"
       /\ last.ret.success = FALSE
       /\ last.ret.error =
            "OAuth session not found. Please start the authentication process again."
       /\ conn = last.connPre
       /\ ~last.kvChanged

(* a complete without a stored attempt returned the failure *)
C2_Witness ==
  /\ ReadSession
  /\ last.sessionAge = {}
  /\ last.kind = "return"
  /\ last.ret.success = FALSE
  /\ kv = Null

(* ------------------------------- C3 ----------------------------------- *)
(* C3: a complete entered with a non-empty code while the stored attempt   *)
(* is older than ten minutes (and no store or loader call throws) returns  *)
(* the "OAuth session expired" failure at that step, sends no token        *)
(* request, leaves the credential store unchanged and deletes the attempt. *)
C3_ExpiredSessionRejected ==
  (ReadSession /\ \E age \in last.sessionAge : age > 600000)
    => /\ last.kind = "return"
       /\ last.ret.kind = "value"
       /\ last.ret.success = FALSE
       /\ last.ret.error = "OAuth session expired. Please try again."
       /\ conn = last.connPre
       /\ kv = Null

(* a complete found an attempt older than ten minutes and refused it *)
C3_Witness ==
  /\ ReadSession
  /\ \E age \in last.sessionAge : age > 600000
  /\ last.kind = "return"
  /\ last.ret.error = "OAuth session expired. Please try again."
  /\ kv = Null
  /\ last.kvChanged

(* ------------------------------- C4 ----------------------------------- *)
(* C4: whenever complete returns success=false, whatever the cause, the    *)
(* session store holds no attempt when it returns.                         *)
C4_FailedCompleteLeavesNoAttempt ==
  (Returned("complete") /\ last.ret.kind = "value" /\ last.ret.success = FALSE)
    => ~JSONparses(kv)

(* ------------------------------- C5 ----------------------------------- *)
(* the text before and after the first '#' of an authorization code *)
FirstHash(authCode) == CHOOSE i \in 1..Len(authCode) :
                         authCode[i] = "#" /\ \A j \in 1..(i - 1) : authCode[j] # "#"
BeforeFirstHash(authCode) == SubSeq(authCode, 1, FirstHash(authCode) - 1)
AfterFirstHash(authCode) == SubSeq(authCode, FirstHash(authCode) + 1, Len(authCode))

(* C5: the token request complete sends for an authCode containing '#'     *)
(* carries as code the text before the first '#' and, as state, all of the *)
(* text after the first '#' (the stored state when that text is empty); an *)
(* authCode without '#' is sent whole, with the stored state.              *)
C5_SplitOnFirstHash ==
  (Did("complete") /\ last.kind = "sent" /\ last.tokenReq # {})
    => \A r \in last.tokenReq :
         IF \E i \in 1..Len(last.authCode) : last.authCode[i] = "#"
           THEN /\ r.code = BeforeFirstHash(last.authCode)
                /\ r.state = IF AfterFirstHash(last.authCode) = <<>>
                               THEN last.oauthData.state
                               ELSE AfterFirstHash(last.authCode)
           ELSE /\ r.code = last.authCode
                /\ r.state = last.oauthData.state

(* ------------------------------- C6 ----------------------------------- *)
(* C6: a complete that returns success=true returns the issued key's       *)
(* raw_key as apiKey and its name as keyName, and the Anthropic row then   *)
(* holds that raw_key as secret and, as metadata, the JSON text of         *)
(* {type: oauth_generated, key_id, key_name, created_at, partial_key_hint} *)
(* taken from the same issuance response.                                  *)
C6_SuccessStoresIssuedKey ==
  (Returned("complete") /\ last.ret.kind = "value" /\ last.ret.success = TRUE)
    => /\ Cardinality(last.keyData) = 1
       /\ \A d \in last.keyData :
            /\ last.ret.apiKey = d.raw_key
            /\ last.ret.keyName = d.name
            /\ conn["Anthropic"].apikey = d.raw_key
            /\ conn["Anthropic"].google_Oauth =
                 <<"json", [type |-> "oauth_generated", key_id |-> d.id,
                            key_name |-> d.name, created_at |-> d.created_at,
                            partial_key_hint |-> d.partial_key_hint]>>

(* a complete succeeded and replaced the row that was there before *)
C6_Witness ==
  /\ Returned("complete")
  /\ last.ret.kind = "value"
  /\ last.ret.success = TRUE
  /\ last.ret.apiKey = "sk-xyz"
  /\ conn["Anthropic"].apikey = "sk-xyz"
  /\ last.connPre["Anthropic"].apikey = "sk-manual"

(* ------------------------------- C7 ----------------------------------- *)
(* the row's metadata is JSON text of type oauth_generated *)
FlowProvisioned(row) ==
  /\ Len(row.google_Oauth) = 2
  /\ row.google_Oauth[1] = "json"
  /\ row.google_Oauth[2].type = "oauth_generated"

(* C7: a logout that finds the Anthropic credential provisioned by the     *)
(* flow (and whose store calls do not throw) returns success=true and      *)
(* leaves an Anthropic row with empty secret and empty metadata: the row   *)
(* is still there, and the status handler then answers                     *)
(* authenticated=false.                                                    *)
C7_LogoutClearsFlowCredential ==
  (Returned("logout") /\ ~last.fault /\ FlowProvisioned(last.connPre["Anthropic"]))
    => /\ last.ret.kind = "value"
       /\ last.ret.success = TRUE
       /\ conn["Anthropic"].apikey = ""
       /\ conn["Anthropic"].google_Oauth = <<>>
       /\ conn["Anthropic"] # NoRow
       /\ StatusNow.authenticated = FALSE
       /\ conn["Gemini CLI"] = last.connPre["Gemini CLI"]

(* a logout cleared a key that a complete of this run had stored *)
C7_Witness ==
  /\ Returned("logout")
  /\ ~last.fault
  /\ FlowProvisioned(last.connPre["Anthropic"])
  /\ last.connPre["Anthropic"].apikey \in {"sk-abc", "sk-xyz"}
  /\ conn["Anthropic"].apikey = ""
  /\ StatusNow.authenticated = FALSE

(* ------------------------------- C8 ----------------------------------- *)
(* what a further logout would do in the present state when the store     *)
(* answers                                                                 *)
LogoutNow ==
  LogoutOutcome(Event(0, [IdleCall EXCEPT !.op = "logout"], NoRet), FALSE, FALSE)

(* C8: a logout that finds no Anthropic credential provisioned by the flow *)
(* (no row, metadata absent, not JSON, or of another type) returns         *)
(* success=true and changes neither store; and after any logout whose      *)
(* store calls did not throw, a further logout changes nothing.            *)
C8_LogoutNoOpAndIdempotent ==
  /\ (Returned("logout") /\ ~last.fault /\ ~FlowProvisioned(last.connPre["Anthropic"]))
       => /\ last.ret.kind = "value"
          /\ last.ret.success = TRUE
          /\ conn = last.connPre
          /\ ~last.kvChanged
  /\ (Returned("logout") /\ ~last.fault)
       => /\ LogoutNow.ret.success = TRUE
          /\ LogoutNow.connPost = conn
          /\ LogoutNow.kvPost = kv

(* a logout left a key that the user had entered untouched *)
C8_Witness ==
  /\ Returned("logout")
  /\ ~last.fault
  /\ last.connPre["Anthropic"].apikey = "sk-manual"
  /\ last.connPre["Anthropic"].google_Oauth # Null
  /\ conn = last.connPre
  /\ last.ret.success = TRUE

(* ------------------------------- C9 ----------------------------------- *)
(* C9 as stated: no logout of the Anthropic flow and no clear-credentials  *)
(* of the Gemini flow removes a provider's row: a row there before the     *)
(* step is there after it.                                                 *)
C9_NoLogoutOrClearRemovesRow ==
  (Returned("logout") \/ Returned("gemClear"))
    => \A pr \in Providers : last.connPre[pr] # NoRow => conn[pr] # NoRow

(* C9 amended: logoutAnthropicOAuth never removes a row of the credential  *)
(* store, Anthropic's or Gemini's; a row there before it is there after it *)
(* (clearGeminiOAuthCredentials does delete the "Gemini CLI" row).         *)
C9_LogoutRetainsRows ==
  Returned("logout")
    => \A pr \in Providers : last.connPre[pr] # NoRow => conn[pr] # NoRow

(* a logout changed the Anthropic row and the row is still there *)
C9_Witness ==
  /\ Returned("logout")
  /\ conn["Anthropic"] # last.connPre["Anthropic"]
  /\ last.connPre["Anthropic"] # NoRow
  /\ conn["Anthropic"] # NoRow
  /\ conn["Gemini CLI"] # NoRow

(* ------------------------------- C10 ---------------------------------- *)
(* C10: start, complete, status and logout always return a structured      *)
(* result, never an exception; and when a store, the loader or the entropy *)
(* source threw during the call, the result is success=false               *)
(* (authenticated=false for status).                                       *)
C10_NoExceptionEscapes ==
  (last.kind = "return" /\ last.op \in {"start", "complete", "status", "logout"})
    => /\ last.ret.kind = "value"
       /\ last.fault =>
            IF last.op = "status" THEN last.ret.authenticated = FALSE
                                  ELSE last.ret.success = FALSE

(* ------------------------------- C11 ---------------------------------- *)
(* a handler slot holds a complete that waits for an endpoint *)
AwaitsEndpoint(p) == calls[p].pc \in {"token_wait", "key_wait"}

(* C11: every complete that waits for the token endpoint or the key        *)
(* endpoint eventually stops waiting (it returns a result), whether or not *)
(* the endpoint ever answers.                                              *)
C11_CompleteEventuallyReturns ==
  \A p \in Procs : AwaitsEndpoint(p) ~> ~AwaitsEndpoint(p)

(* ------------------------------- C12 ---------------------------------- *)
(* secrets an Anthropic row can hold *)
Secrets == {"sk-abc", "sk-xyz", "sk-old", "sk-manual", "sk-another"}

(* what checkAnthropicAuthStatus returns in the present state with the    *)
(* Anthropic secret replaced by `secret`                                   *)
StatusWithSecret(secret) ==
  StatusOutcome(
    [Event(0, [IdleCall EXCEPT !.op = "status"], NoRet) EXCEPT
       !.connPre = [conn EXCEPT !["Anthropic"].apikey = secret]],
    FALSE).ret

(* the result has the fields of a status result and none of its text      *)
(* fields is `secret`                                                      *)
HidesSecret(ret, secret) ==
  /\ DOMAIN ret \subseteq {"kind", "authenticated", "isOAuthGenerated", "keyName", "keyHint"}
  /\ \A f \in DOMAIN ret \cap {"keyName", "keyHint"} : ret[f] # secret

(* C12: status does not depend on the value of a non-empty secret and does *)
(* not return it: in every state whose Anthropic row holds a non-empty     *)
(* secret, replacing the secret by any other non-empty secret (metadata    *)
(* unchanged) leaves the status result the same, and no field of the       *)
(* result of a status call equals the secret stored when it was called.    *)
C12_StatusHidesSecret ==
  /\ (conn["Anthropic"] # NoRow /\ conn["Anthropic"].apikey # "")
       => /\ \A secret \in Secrets : StatusWithSecret(secret) = StatusNow
          /\ \A secret \in Secrets : HidesSecret(StatusWithSecret(secret), secret)
  /\ Returned("status")
       => HidesSecret(last.ret, last.connPre["Anthropic"].apikey)

(* a status call answered for a stored key with its name and hint *)
C12_Witness ==
  /\ Returned("status")
  /\ last.ret.authenticated = TRUE
  /\ last.connPre["Anthropic"].apikey \in Secrets
  /\ last.ret.keyHint \in {"sk-...d", "sk-...c", "sk-...z"}
  /\ StatusWithSecret("sk-another") = last.ret

(* ------------------------------- C13 ---------------------------------- *)
(* the step just taken is a start that returned success *)
StartSucceeded ==
  Returned("start") /\ last.ret.kind = "value" /\ last.ret.success = TRUE

(* the seven parameters have the values the start generated and the       *)
(* cached configuration gives                                              *)
ListedParams(params) ==
  /\ params.client_id = <<oauthConfig, "clientId">>
  /\ params.response_type = <<"code">>
  /\ params.redirect_uri = <<oauthConfig, "redirectUri">>
  /\ params.scope = <<oauthConfig, "scopes joined by space">>
  /\ params.state = last.ret.state
  /\ params.state = last.oauthData.state
  /\ params.code_challenge = <<"sha256", last.ret.verifier>>
  /\ params.code_challenge_method = <<"S256">>

(* C13 as stated: the authorization URL of a successful start carries      *)
(* exactly client_id, response_type=code, redirect_uri, scope, state,      *)
(* code_challenge and code_challenge_method=S256, and no other parameter.  *)
C13_ExactlySevenParams ==
  StartSucceeded
    => /\ DOMAIN last.ret.authUrl.params =
            {"client_id", "response_type", "redirect_uri", "scope", "state",
             "code_challenge", "code_challenge_method"}
       /\ ListedParams(last.ret.authUrl.params)

(* C13 amended: the authorization URL of a successful start carries the    *)
(* seven listed parameters with the values of that start, and in addition  *)
(* the parameter code=true; it carries no parameter besides these eight.   *)
C13_SevenParamsAndCodeTrue ==
  StartSucceeded
    => /\ DOMAIN last.ret.authUrl.params =
            {"code", "client_id", "response_type", "redirect_uri", "scope", "state",
             "code_challenge", "code_challenge_method"}
       /\ last.ret.authUrl.params.code = <<"true">>
       /\ last.ret.authUrl.base = <<oauthConfig, "authorizeUrl">>
       /\ ListedParams(last.ret.authUrl.params)

(* the second start of a run returned its URL *)
C13_Witness ==
  /\ StartSucceeded
  /\ starts = 2
  /\ last.ret.authUrl.params.state = <<"random", "4">>
  /\ last.ret.authUrl.params.code = <<"true">>

(* ------------------------------- C14 ---------------------------------- *)
(* C14: for every successful start, the code_challenge in the returned     *)
(* URL is the base64url SHA-256 digest of one verifier, and that verifier  *)
(* is the one the start returns and the one in the attempt it has just     *)
(* stored.                                                                 *)
C14_ChallengeIsS256OfVerifier ==
  StartSucceeded
    => /\ last.ret.authUrl.params.code_challenge = <<"sha256", last.ret.verifier>>
       /\ last.ret.authUrl.params.code_challenge # last.ret.verifier
       /\ Len(kv) = 2 /\ kv[1] = "json"
       /\ kv[2].verifier = last.ret.verifier
       /\ last.oauthData.verifier = last.ret.verifier

(* a start stored a freshly drawn verifier over an earlier attempt *)
C14_Witness ==
  /\ StartSucceeded
  /\ last.kvChanged
  /\ last.sessionAge # {}
  /\ kv[2].verifier = <<"random", "1">>
  /\ last.ret.authUrl.params.code_challenge = <<"sha256", <<"random", "1">>>>

(* ------------------------------- C15 ---------------------------------- *)
(* C15: under any interleaving of start and complete calls the config      *)
(* loader getOAuthConfig() is invoked at most once in the process.         *)
C15_ConfigLoadedOnce == loaderCalls <= 1

(* ------------------------------- C16 ---------------------------------- *)
(* C16: whenever the completion signal of a login registered by            *)
(* startGeminiOAuthLogin has resolved while the credential store holds no  *)
(* "Gemini CLI" row, the credential store eventually holds one (the        *)
(* resulting credential gets registered).                                  *)
C16_ResolvedLoginRegistersCredential ==
  (gemResolved # {} /\ conn["Gemini CLI"] = NoRow) ~> (conn["Gemini CLI"] # NoRow)

(* ------------------------------- C17 ---------------------------------- *)
(* what a further completeAnthropicOAuth("A") would do in the present     *)
(* state, with the config loaded and the stores answering                  *)
CompleteNow ==
  CompleteOutcome(
    Event(0, [IdleCall EXCEPT !.op = "complete", !.authCode = <<"A">>,
                              !.config = "cfgA"], NoRet),
    FALSE, FALSE, FALSE)

(* C17: when a complete that sent the token request returns (with success, *)
(* after a failed token exchange or after a failed key issuance) and no    *)
(* store call threw, the session store holds no attempt; a further         *)
(* complete made in that state returns "OAuth session not found" and sends *)
(* no token request.                                                       *)
C17_AttemptIsSingleUse ==
  (Returned("complete") /\ last.tokenRes # "none" /\ ~last.fault)
    => /\ kv = Null
       /\ CompleteNow.kind = "return"
       /\ CompleteNow.tokenReq = {}
       /\ CompleteNow.ret.success = FALSE
       /\ CompleteNow.ret.error =
            "OAuth session not found. Please start the authentication process again."

(* a complete returned after the token endpoint refused the code, and the *)
(* attempt it had read is gone                                             *)
C17_Witness ==
  /\ Returned("complete")
  /\ last.tokenRes = "http_error"
  /\ ~last.fault
  /\ last.ret.error = "Token exchange failed"
  /\ last.kvChanged
  /\ kv = Null

(* ------------------------------- C18 ---------------------------------- *)
(* C18: the token request complete sends carries as code_verifier the      *)
(* verifier of the attempt this complete read, and as state the            *)
(* receivedState of line 101 whenever that is not null, the attempt's      *)
(* stored state only when it is null.                                      *)
C18_VerifierAndAssertedState ==
  (Did("complete") /\ last.kind = "sent" /\ last.tokenReq # {})
    => \A r \in last.tokenReq :
         LET receivedState == ParseAuthCode(last.authCode).receivedState IN
           /\ r.code_verifier = last.oauthData.verifier
           /\ r.state = IF receivedState # Null THEN receivedState
                                                ELSE last.oauthData.state

(* ------------------------------- C19 ---------------------------------- *)
(* the session store holds exactly the attempt the start just taken        *)
(* returned                                                                *)
HoldsAttemptOfStart ==
  /\ Len(kv) = 2 /\ kv[1] = "json"
  /\ kv[2] = [verifier |-> last.ret.verifier, state |-> last.ret.state,
              timestamp |-> now]

(* after a successful start the store holds that start's attempt; a token *)
(* request is built from the attempt stored when it is sent                *)
LastStartStored ==
  /\ StartSucceeded => HoldsAttemptOfStart
  /\ (Did("complete") /\ last.kind = "sent" /\ last.tokenReq # {})
       => /\ Len(kv) = 2 /\ kv[1] = "json"
          /\ \A r \in last.tokenReq :
               /\ r.code_verifier = kv[2].verifier
               /\ (\A i \in 1..Len(last.authCode) : last.authCode[i] # "#")
                    => r.state = kv[2].state

(* the session store is written only by a successful start, with its own  *)
(* attempt, or emptied                                                     *)
OnlyStartWrites ==
  kv' # kv => (kv' = Null \/ (StartSucceeded' /\ HoldsAttemptOfStart'))

(* C19: last start wins.  The session store holds one value under its one  *)
(* key; every successful start replaces it by its own attempt, nothing     *)
(* else writes an attempt, and a complete builds its token request from    *)
(* the attempt stored at that moment, hence from the one written last.     *)
C19_LastStartWins == [] LastStartStored /\ [][OnlyStartWrites]_vars

(* the second start of a run replaced the attempt of the first *)
C19_Witness ==
  /\ StartSucceeded
  /\ starts = 2
  /\ last.sessionAge # {}
  /\ last.kvChanged
  /\ kv[2].verifier = <<"random", "3">>
  /\ kv[2].state = <<"random", "4">>

(* ------------------------------- C20 ---------------------------------- *)
(* the stored attempt is one that no complete waiting for an endpoint has *)
(* read: none of the token requests in flight carries its verifier         *)
StoredAttemptIsFresh ==
  /\ Len(kv) = 2 /\ kv[1] = "json"
  /\ \A p \in Procs :
       AwaitsEndpoint(p) => \A r \in calls[p].tokenReq : r.code_verifier # kv[2].verifier

(* a complete that had sent its token request returns in this step *)
ExchangingCompleteReturns ==
  /\ \E p \in Procs : AwaitsEndpoint(p)
  /\ Returned("complete")'
  /\ last'.tokenRes # "none"

(* C20: a complete deletes only the attempt it read itself: when a         *)
(* complete that waited for the token or the key endpoint returns (with    *)
(* success or failure) while the session store holds an attempt that no    *)
(* waiting complete has read, that attempt is still stored afterwards.     *)
C20_CompleteDeletesOnlyItsOwnAttempt ==
  [][(StoredAttemptIsFresh /\ ExchangingCompleteReturns) => kv' = kv]_vars

(* ------------------------------- C21 ---------------------------------- *)
(* the verifiers of the token requests handler slot `p` has sent and not  *)
(* yet returned from                                                       *)
VerifiersInFlight(p) ==
  IF AwaitsEndpoint(p) THEN { r.code_verifier : r \in calls[p].tokenReq } ELSE {}

(* C21: two completes that overlap in time never both post the same        *)
(* attempt to the token endpoint: the token requests of two completes that *)
(* both wait for an endpoint carry different verifiers, so that each       *)
(* attempt is exchanged at most once and yields at most one credential.    *)
C21_AttemptExchangedAtMostOnce ==
  \A p, q \in Procs :
    p # q => VerifiersInFlight(p) \cap VerifiersInFlight(q) = {}

(* ------------------------------- C22 ---------------------------------- *)
(* the step changes the row of provider `pr` *)
RowChanges(pr) == conn'[pr] # conn[pr]

(* the step is the return of a complete whose token exchange and key      *)
(* issuance both answered 2xx                                              *)
IssuedCompleteReturns ==
  Returned("complete")' /\ last'.tokenRes = "ok" /\ last'.keyRes = "ok"

(* the step is a logout that found a credential provisioned by the flow *)
LogoutOfFlowCredential ==
  /\ Returned("logout")'
  /\ conn["Anthropic"] # NoRow
  /\ FlowProvisioned(conn["Anthropic"])

(* the step is the return of a complete that did not return success=true *)
FailingCompleteReturns ==
  /\ Returned("complete")'
  /\ ~(last'.ret.kind = "value" /\ last'.ret.success = TRUE)

(* the step is a step of one of the four Anthropic handlers *)
AnthropicStep ==
  last'.kind # "none" /\ last'.op \in {"start", "complete", "status", "logout"}

(* C22: the Anthropic row changes only in the return of a complete whose   *)
(* token exchange and key issuance both succeeded, or in a logout of a     *)
(* flow-provisioned credential; every complete that returns a failure      *)
(* leaves it unchanged (as do start, status, logout of another credential  *)
(* and the Gemini operations, which are none of the two); and no step of   *)
(* an Anthropic handler changes the "Gemini CLI" row.                      *)
C22_AnthropicRowWriters ==
  [][ /\ RowChanges("Anthropic") => (IssuedCompleteReturns \/ LogoutOfFlowCredential)
      /\ FailingCompleteReturns => ~RowChanges("Anthropic")
      /\ AnthropicStep => ~RowChanges("Gemini CLI") ]_vars

=============================================================================
